---------------------------- MODULE Spec2Model ----------------------------
(* CSV upload ingestion: row validation (base.py) and the chunked loader   *)
(* and S3 handler (handler.py).                                            *)
EXTENDS Integers, Sequences, FiniteSets, TLC

(***************************************************************************)
(* Characters and strings.  A Python str is a sequence of one-character    *)
(* strings.                                                                *)
(***************************************************************************)
Lowers == <<"a","b","c","d","e","f","g","h","i","j","k","l","m",
            "n","o","p","q","r","s","t","u","v","w","x","y","z">>
Uppers == <<"A","B","C","D","E","F","G","H","I","J","K","L","M",
            "N","O","P","Q","R","S","T","U","V","W","X","Y","Z">>
Digits == <<"0","1","2","3","4","5","6","7","8","9">>

Range(f) == {f[i] : i \in DOMAIN f}

LetterSet == Range(Lowers) \cup Range(Uppers)
UpperSet == Range(Uppers)
DigitSet == Range(Digits)

IsLetter(c) == c \in LetterSet
IsDigit(c) == c \in DigitSet
IsSpace(c) == c \in {" ", "\t", "\n"}

DigitVal(c) == (CHOOSE i \in DOMAIN Digits : Digits[i] = c) - 1

\* str.lower() on one character
LowerChar(c) ==
    IF c \in UpperSet
    THEN Lowers[CHOOSE i \in DOMAIN Uppers : Uppers[i] = c]
    ELSE c

StrLower(s) == [i \in DOMAIN s |-> LowerChar(s[i])]

RECURSIVE LStrip(_)
LStrip(s) == IF s # <<>> /\ IsSpace(Head(s)) THEN LStrip(Tail(s)) ELSE s

RECURSIVE RStrip(_)
RStrip(s) ==
    IF s # <<>> /\ IsSpace(s[Len(s)]) THEN RStrip(SubSeq(s, 1, Len(s) - 1)) ELSE s

StrStrip(s) == RStrip(LStrip(s))

AllDigits(s) == \A i \in DOMAIN s : IsDigit(s[i])

RECURSIVE DecVal(_)
DecVal(s) == IF s = <<>> THEN 0 ELSE 10 * DecVal(SubSeq(s, 1, Len(s) - 1)) + DigitVal(s[Len(s)])

Rep(c, n) == [i \in 1..n |-> c]

(***************************************************************************)
(* Values of the data model: a row maps column names to values.            *)
(*   kind "absent" : the key is not in the mapping                         *)
(*   kind "null"   : None                                                  *)
(*   kind "str"    : s is the text                                         *)
(*   kind "num"    : n is the number                                       *)
(*   kind "bool"   : n = 1 for True, 0 for False                           *)
(*   kind "map", "seq" : n is the number of elements                       *)
(***************************************************************************)
Val(k, s, n) == [kind |-> k, s |-> s, n |-> n]
Absent == Val("absent", <<>>, 0)
Null == Val("null", <<>>, 0)
Str(s) == Val("str", s, 0)
Num(n) == Val("num", <<>>, n)
Bool(b) == Val("bool", <<>>, IF b THEN 1 ELSE 0)
Map(n) == Val("map", <<>>, n)
List(n) == Val("seq", <<>>, n)

\* dict.get(name): None when the key is absent
Get(row, name) == IF row[name].kind = "absent" THEN Null ELSE row[name]

\* Python truthiness, as used by `not value`
Truthy(v) ==
    CASE v.kind = "null" -> FALSE
      [] v.kind = "str" -> Len(v.s) > 0
      [] v.kind = "num" -> v.n # 0
      [] v.kind = "bool" -> v.n = 1
      [] OTHER -> v.n > 0

(***************************************************************************)
(* Outcomes of a call: exc = "none" when it returns, else the exception    *)
(* class raised, its message template and the value it reports.            *)
(***************************************************************************)
Ok == [exc |-> "none", msg |-> "", val |-> Null]
Raise(e, m, v) == [exc |-> e, msg |-> m, val |-> v]
ValidationError(m, v) == Raise("ValidationError", m, v)

(***************************************************************************)
(* Validators                                                              *)
(***************************************************************************)
BATCH_LENGTH == 20

\* re.compile('[a-zA-Z]{length}').match(value): the first `length`
\* characters are letters (the pattern is not end-anchored)
PatternMatch(length, s) ==
    /\ Len(s) >= length
    /\ \A i \in 1..length : IsLetter(s[i])

\* faulty variant of BatchValidator.__call__ without the length test
BatchValidatorPrefixOnly(length, value) ==
    IF value.kind # "str"
    THEN Raise("TypeError", "expected string or bytes-like object", value)
    ELSE IF ~PatternMatch(length, value.s)
         THEN ValidationError("Invalid batch provided", value)
         ELSE Ok

\* BatchValidator.__call__
BatchValidator(length, value) ==
    IF value.kind # "str"
    THEN Raise("TypeError", "expected string or bytes-like object", value)
    ELSE IF ~PatternMatch(length, value.s) \/ Len(value.s) # length
         THEN ValidationError("Invalid batch provided", value)
         ELSE Ok

BoolValidator(value) ==
    LET v == IF Truthy(value) THEN value ELSE Str(<<>>)
    IN IF v.kind # "str"
       THEN Raise("AttributeError", "no attribute lower", value)
       ELSE IF StrLower(v.s) \notin {<<"f","a","l","s","e">>, <<"t","r","u","e">>}
            THEN ValidationError("Invalid boolean value", value)
            ELSE Ok

\* Fields of '%Y-%m-%dT%H:%M:%S' as datetime.strptime matches them
FieldY(f) == Len(f) = 4 /\ AllDigits(f)
Field12(f) == Len(f) \in {1, 2} /\ AllDigits(f)
\* %m: 1[0-2]|0[1-9]|[1-9]
FieldM(f) == Field12(f) /\ DecVal(f) \in 1..12
\* %d: 3[0-1]|[1-2]\d|0[1-9]|[1-9]| [1-9]
FieldD(f) ==
    \/ Field12(f) /\ DecVal(f) \in 1..31
    \/ Len(f) = 2 /\ f[1] = " " /\ IsDigit(f[2]) /\ f[2] # "0"
\* %H: 2[0-3]|[0-1]\d|\d
FieldH(f) == Field12(f) /\ DecVal(f) \in 0..23
\* %M: [0-5]\d|\d
FieldMin(f) == Field12(f) /\ DecVal(f) \in 0..59
\* %S: 6[0-1]|[0-5]\d|\d
FieldS(f) == Field12(f) /\ DecVal(f) \in 0..61

IsLeap(y) == (y % 4 = 0) /\ ((y % 100 # 0) \/ (y % 400 = 0))
DaysInMonth(y, m) ==
    IF m = 2 THEN (IF IsLeap(y) THEN 29 ELSE 28)
    ELSE IF m \in {4, 6, 9, 11} THEN 30 ELSE 31

DayVal(f) == IF f[1] = " " THEN DigitVal(f[2]) ELSE DecVal(f)

\* datetime.strptime(value, '%Y-%m-%dT%H:%M:%S') returns (no ValueError)
StrptimeOk(s) ==
    \E lm, ld, lh, ln, ls \in 1..2 :
        LET p1 == 5
            p2 == p1 + 1 + lm
            p3 == p2 + 1 + ld
            p4 == p3 + 1 + lh
            p5 == p4 + 1 + ln
            Y == SubSeq(s, 1, 4)
            M == SubSeq(s, p1 + 1, p2 - 1)
            D == SubSeq(s, p2 + 1, p3 - 1)
            H == SubSeq(s, p3 + 1, p4 - 1)
            Mi == SubSeq(s, p4 + 1, p5 - 1)
            S == SubSeq(s, p5 + 1, p5 + ls)
        IN /\ Len(s) = p5 + ls
           /\ s[p1] = "-" /\ s[p2] = "-" /\ LowerChar(s[p3]) = "t"
           /\ s[p4] = ":" /\ s[p5] = ":"
           /\ FieldY(Y) /\ FieldM(M) /\ FieldD(D)
           /\ FieldH(H) /\ FieldMin(Mi) /\ FieldS(S)
           \* datetime(...) range checks
           /\ DecVal(Y) >= 1
           /\ DayVal(D) <= DaysInMonth(DecVal(Y), DecVal(M))
           /\ DecVal(S) <= 59

DateValidator(value) ==
    IF value.kind # "str"
    THEN Raise("TypeError", "strptime() argument 1 must be str", value)
    ELSE IF ~StrptimeOk(value.s)
         THEN ValidationError("Invalid date value", value)
         ELSE Ok

\* int(s) for a str: optional surrounding whitespace, optional sign,
\* digits with single underscores between them
IntLiteral(s) ==
    LET t == StrStrip(s)
        u == IF t # <<>> /\ t[1] \in {"+", "-"} THEN Tail(t) ELSE t
    IN /\ u # <<>>
       /\ IsDigit(u[1]) /\ IsDigit(u[Len(u)])
       /\ \A i \in DOMAIN u : IsDigit(u[i]) \/ u[i] = "_"
       /\ \A i \in 1..(Len(u) - 1) : ~(u[i] = "_" /\ u[i + 1] = "_")

\* the builtin int applied to a value
int(value) ==
    CASE value.kind = "str" ->
            IF IntLiteral(value.s) THEN Ok
            ELSE Raise("ValueError", "invalid literal for int()", value)
      [] value.kind \in {"num", "bool"} -> Ok
      [] OTHER -> Raise("TypeError", "int() argument must be a string or a number", value)

notempty(value) ==
    IF value.kind = "null" \/ (value.kind = "str" /\ value.s = <<>>)
    THEN Raise("ValueError", "Value cannot be empty or whitespaces only", value)
    ELSE IF value.kind # "str"
         THEN Raise("AttributeError", "no attribute strip", value)
         ELSE IF Len(StrStrip(value.s)) = 0
              THEN Raise("ValueError", "Value cannot be empty or whitespaces only", value)
              ELSE Ok

\* FuncValidator.__call__, given the outcome of self.func(value): any
\* exception of func becomes a ValidationError
FuncValidator(outcome, value) ==
    IF outcome.exc # "none"
    THEN ValidationError("Invalid value provided", value)
    ELSE Ok

(***************************************************************************)
(* RowValidator                                                            *)
(***************************************************************************)
columns == <<"batch", "start", "end", "records", "pass", "message">>
ColumnNames == Range(columns)

\* the validator RowValidator.columns binds to each name
ColumnValidator(name, value) ==
    CASE name = "batch" -> BatchValidator(BATCH_LENGTH, value)
      [] name = "start" -> DateValidator(value)
      [] name = "end" -> DateValidator(value)
      [] name = "records" -> FuncValidator(int(value), value)
      [] name = "pass" -> BoolValidator(value)
      [] name = "message" -> FuncValidator(notempty(value), value)

Missing(name) == ValidationError("Missing value for", Str(<<name>>))

\* faulty variant of the loop: every column is checked and the failure of
\* the last failing column is the one raised
RECURSIVE ValidateLastFailure(_, _, _)
ValidateLastFailure(row, i, calls) ==
    IF i > Len(columns)
    THEN [out |-> Ok, calls |-> calls]
    ELSE LET name == columns[i]
             value == Get(row, name)
             here == IF ~Truthy(value) THEN Missing(name) ELSE ColumnValidator(name, value)
             seen == IF Truthy(value) THEN Append(calls, name) ELSE calls
             rest == ValidateLastFailure(row, i + 1, seen)
         IN IF rest.out.exc # "none" \/ here.exc = "none"
            THEN rest
            ELSE [out |-> here, calls |-> rest.calls]

\* the loop of RowValidator.__call__ from column i on; calls lists the
\* columns whose validator has been invoked so far
RECURSIVE ValidateFrom(_, _, _)
ValidateFrom(row, i, calls) ==
    IF i > Len(columns)
    THEN [out |-> Ok, calls |-> calls]
    ELSE LET name == columns[i]
             value == Get(row, name)
         IN IF ~Truthy(value)
            THEN [out |-> Missing(name), calls |-> calls]
            ELSE LET r == ColumnValidator(name, value)
                 IN IF r.exc # "none"
                    THEN [out |-> r, calls |-> Append(calls, name)]
                    ELSE ValidateFrom(row, i + 1, Append(calls, name))

RowValidator_call(row) == ValidateFrom(row, 1, <<>>)

None == [exc |-> "none", msg |-> "", val |-> Null]

\* faulty variant of is_valid without the try/except: a ValidationError
\* leaves is_valid
is_valid_uncaught(row) ==
    LET r == RowValidator_call(row).out
    IN IF r.exc = "none"
       THEN [ret |-> "True", err |-> None, exc |-> Ok]
       ELSE [ret |-> "raise", err |-> None, exc |-> r]

\* RowValidator.is_valid: ret is "True", "False" or "raise" (an exception
\* other than ValidationError leaves is_valid); err is the new self.err
is_valid(row) ==
    LET r == RowValidator_call(row).out
    IN CASE r.exc = "none" -> [ret |-> "True", err |-> None, exc |-> Ok]
         [] r.exc = "ValidationError" -> [ret |-> "False", err |-> r, exc |-> Ok]
         [] OTHER -> [ret |-> "raise", err |-> None, exc |-> r]


(***************************************************************************)
(* Bounds of the model                                                     *)
(***************************************************************************)
MaxBad == 2        \* columns of the row under test that differ from a valid row
MaxLines == 5      \* data lines over all files given to process_records
MaxBatch == 3      \* batch sizes 1..MaxBatch tried by the caller
MaxCalls == 2      \* process_records calls made by the caller
MaxFaults == 1     \* I/O and sink errors injected in one behaviour
MaxFiles == 2      \* records over all S3 events handled
MaxRuns == 2       \* handler invocations
MaxAccess == 3     \* attribute accesses made on one AttrDict structure
MaxMut == 1        \* mutations made through values an access returned
MaxBatchLen == 3   \* configured lengths 0..MaxBatchLen of a BatchValidator
MaxStrLen == 4     \* length of the strings passed to it

(***************************************************************************)
(* Inputs                                                                  *)
(***************************************************************************)
S(str) == Str(str)
Date1 == <<"2","0","0","3","-","0","9","-","1","2","T","0","3",":","3","2",":","4","8">>
Date2 == <<"2","0","2","0","-","0","2","-","2","9","T","2","3",":","5","8",":","4","0">>
BadMonth == <<"2","0","0","3","-","1","9","-","1","2","T","0","3",":","3","2",":","4","8">>

ValidRow ==
    [c \in ColumnNames |->
        CASE c = "batch" -> S(Rep("a", 19) \o <<"Z">>)
          [] c = "start" -> S(Date1)
          [] c = "end" -> S(Date2)
          [] c = "records" -> S(<<"1", "0", "0">>)
          [] c = "pass" -> S(<<"T", "r", "u", "e">>)
          [] c = "message" -> S(<<"o", "k">>)]

\* a malformed text for each column
Malformed(c) ==
    CASE c = "batch" -> S(Rep("a", 23))
      [] c = "start" -> S(BadMonth)
      [] c = "end" -> S(<<"2","0","2","1","-","0","2","-","2","9","T","0","0",":","0","0",":","0","0">>)
      [] c = "records" -> S(<<"1", "0", ".", "6">>)
      [] c = "pass" -> S(<<"y", "e", "s">>)
      [] c = "message" -> S(<<" ", " ">>)

\* values a caller may store in a column of a row
ColumnValues(c) ==
    {ValidRow[c], Malformed(c), Absent, S(<<>>), Num(0), Num(7)}
        \cup (IF c = "pass" THEN {Null, Bool(FALSE)} ELSE {})
        \cup (IF c = "message" THEN {List(1), Map(0)} ELSE {})

BadCount(row) == Cardinality({c \in ColumnNames : row[c] # ValidRow[c]})

(***************************************************************************)
(* State                                                                   *)
(***************************************************************************)
VARIABLES
    err,        \* row_validator.err
    vrow,       \* RowValidator harness: the row under test
    vphase,     \* "build" while the row is edited, "called" after a call on it
    vres,       \* the call made and its outcome
    db,         \* rows of the uploads table behind the DB connection
    ppc,        \* process_records: "idle", "iter", "returned", "raised"
    pfile,      \* the local file it was called on
    pbatch,     \* batch_size
    ppos,       \* lines the reader has consumed
    prows,      \* rows, the chunk being accumulated
    inserts,    \* chunks passed to db.insert by this call, in call order
    pexc,       \* the exception that left process_records
    faults,     \* I/O and sink errors still to be injected
    ncalls,     \* process_records calls made by the direct caller
    nlines,     \* data lines handed to process_records so far
    nfiles,     \* event records handed to the handler so far
    hpc,        \* handler: "idle", "download", "connect", "process", "upload", "cleanup"
    run,        \* handler invocations started
    pending,    \* event.Records not yet downloaded
    infos,      \* accepted S3ObjInfo, in event order
    skipped,    \* S3ObjInfo skipped as non csv
    fidx,       \* infos already handed to process_records
    store,      \* the S3 object DB_KEY
    local,      \* files that exist in TEMP_DIR
    hlog,       \* outcome of each process_records call that ended, per run
    nput,       \* put_object calls for DB_KEY in this run
    heap,       \* AttrDict harness: the objects, by identity
    acc,        \* attribute accesses made, with the value each returned
    nmut,       \* mutations made through the returned values
    blen,       \* BatchValidator harness: the configured length
    bval,       \* the string passed
    bout        \* "new" before the call, then its outcome

rowVars == <<vrow, vphase, vres>>
procVars == <<db, ppc, pfile, pbatch, ppos, prows, inserts, pexc>>
callVars == <<ncalls, nlines, nfiles>>
handlerVars == <<hpc, run, pending, infos, skipped, fidx, store, local, hlog, nput>>
attrVars == <<heap, acc, nmut>>
batchVars == <<blen, bval, bout>>
vars == <<err, rowVars, attrVars, batchVars, procVars, faults, callVars, handlerVars>>

NoCall == [op |-> "none", ret |-> "none", out |-> Ok, calls |-> <<>>]
NoFile == [name |-> "", exists |-> FALSE, header |-> {}, lines |-> <<>>]
NoStore == [exists |-> FALSE, rows |-> <<>>]

\* the AttrDict and BatchValidator harnesses before they are used
NotCalled == [exc |-> "not called", msg |-> "", val |-> Null]
AttrIdle == heap = <<>> /\ acc = <<>> /\ nmut = 0
BatchIdle == blen = 0 /\ bval = <<>> /\ bout = NotCalled

InitProgram ==
    /\ err = None
    /\ vrow = ValidRow /\ vphase = "build" /\ vres = NoCall
    /\ db = <<>>
    /\ ppc = "idle" /\ pfile = NoFile /\ pbatch = 0 /\ ppos = 0
    /\ prows = <<>> /\ inserts = <<>> /\ pexc = Ok
    /\ faults = MaxFaults
    /\ ncalls = 0 /\ nlines = 0 /\ nfiles = 0
    /\ hpc = "idle" /\ run = 0 /\ pending = <<>> /\ infos = <<>> /\ skipped = <<>>
    /\ fidx = 0 /\ store = NoStore /\ local = {} /\ hlog = <<>> /\ nput = 0

InitCommon == InitProgram /\ AttrIdle /\ BatchIdle

(***************************************************************************)
(* RowValidator called directly on rows of the data model                  *)
(***************************************************************************)
\* AttrDict.__setattr__ (or removal of the key, for Absent)
SetAttr(c, v) ==
    /\ v # vrow[c]
    /\ BadCount([vrow EXCEPT ![c] = v]) <= MaxBad
    /\ vrow' = [vrow EXCEPT ![c] = v]
    /\ vphase' = "build"
    /\ vres' = NoCall
    /\ UNCHANGED <<err, attrVars, batchVars, procVars, faults, callVars, handlerVars>>

\* row_validator(row)
CallValidate ==
    /\ LET r == RowValidator_call(vrow)
       IN vres' = [op |-> "validate",
                   ret |-> IF r.out.exc = "none" THEN "None" ELSE "raise",
                   out |-> r.out, calls |-> r.calls]
    /\ vphase' = "called"
    /\ UNCHANGED <<err, vrow, attrVars, batchVars, procVars, faults, callVars, handlerVars>>

\* row_validator.is_valid(row)
CallIsValid ==
    /\ LET r == is_valid(vrow)
       IN /\ vres' = [op |-> "is_valid", ret |-> r.ret, out |-> r.exc,
                      calls |-> RowValidator_call(vrow).calls]
          /\ err' = r.err
    /\ vphase' = "called"
    /\ UNCHANGED <<vrow, attrVars, batchVars, procVars, faults, callVars, handlerVars>>

NextRow ==
    \/ \E c \in ColumnNames : \E v \in ColumnValues(c) : SetAttr(c, v)
    \/ CallValidate
    \/ CallIsValid

SpecRow == InitCommon /\ [][NextRow]_vars



(***************************************************************************)
(* process_records                                                         *)
(***************************************************************************)
MIMETYPE_CSV == "text/csv"
BATCH_SIZE == 50

\* mimetypes.guess_type(filepath)[0]: decided by the extension of the name
guess_type(name) ==
    CASE name.ext = ".csv" -> "text/csv"
      [] name.ext = ".png" -> "image/png"
      [] OTHER -> "None"

\* faulty variant of the file-type test: any recognised type passes
IsKnownType(file_type) == file_type # "None"

\* the file-type test of process_records
IsCsvFile(file_type) == file_type # "None" /\ file_type = MIMETYPE_CSV

\* AttrDictReader.__next__: the fields of a line keyed by the header row;
\* a column the header does not name is not in the row
AttrDictReader_next(header, line) ==
    [c \in ColumnNames |-> IF c \in header THEN line[c] ELSE Absent]

\* faulty variant of rows.append(row): the row is put in front
RowsPrepend(rows, row) == <<row>> \o rows

\* rows.append(row)
RowsAppend(rows, row) == Append(rows, row)

\* faulty variant of the chunk test: one row too late
ChunkOverfull(rows, batch_size) == Len(rows) > batch_size

\* len(rows) == batch_size
ChunkFull(rows, batch_size) == Len(rows) = batch_size

\* `if rows:` at the end of the stream
FinalFlush(rows) == rows # <<>>

\* DB.insert: the uploads table after executemany and commit
DB_insert(table, rows) == table \o rows

RECURSIVE Flatten(_)
Flatten(chunks) == IF chunks = <<>> THEN <<>> ELSE Head(chunks) \o Flatten(Tail(chunks))

\* what a caller sees of the process_records call that just ended
LogEntry ==
    [name |-> pfile.name,
     exc |-> IF ppc = "raised" THEN pexc.exc ELSE "none",
     rows |-> Flatten(inserts)]

\* entry of process_records(filepath, db, batch_size): the type check and
\* the opening of the file by the generator
ProcessRecordsEnter(file, n) ==
    /\ pfile' = file /\ pbatch' = n /\ ppos' = 0
    /\ prows' = <<>> /\ inserts' = <<>>
    /\ IF ~IsCsvFile(guess_type(file.name))
       THEN ppc' = "returned" /\ pexc' = Ok
       ELSE IF ~file.exists
            THEN ppc' = "raised" /\ pexc' = Raise("FileNotFoundError", "open", Null)
            ELSE ppc' = "iter" /\ pexc' = Ok

\* one iteration of `for row in reader`
IterateRow ==
    /\ ppc = "iter" /\ ppos < Len(pfile.lines)
    /\ LET row == AttrDictReader_next(pfile.header, pfile.lines[ppos + 1])
           v == is_valid(row)
           rows2 == RowsAppend(prows, row)
       IN /\ err' = v.err
          /\ ppos' = ppos + 1
          /\ IF v.ret = "raise"
             THEN ppc' = "raised" /\ pexc' = v.exc /\ UNCHANGED <<prows, inserts, db>>
             ELSE IF v.ret = "False"
                  THEN UNCHANGED <<ppc, pexc, prows, inserts, db>>
                  ELSE IF ChunkFull(rows2, pbatch)
                       THEN /\ db' = DB_insert(db, rows2)
                            /\ inserts' = Append(inserts, rows2)
                            /\ prows' = <<>>
                            /\ UNCHANGED <<ppc, pexc>>
                       ELSE /\ prows' = rows2
                            /\ UNCHANGED <<ppc, pexc, inserts, db>>
    /\ UNCHANGED <<pfile, pbatch, rowVars, attrVars, batchVars, faults, callVars, handlerVars>>

\* the reader is exhausted: flush the partial chunk and return
EndOfStream ==
    /\ ppc = "iter" /\ ppos = Len(pfile.lines)
    /\ IF FinalFlush(prows)
       THEN /\ db' = DB_insert(db, prows)
            /\ inserts' = Append(inserts, prows)
       ELSE UNCHANGED <<db, inserts>>
    /\ prows' = <<>>
    /\ ppc' = "returned"
    /\ UNCHANGED <<err, pfile, pbatch, ppos, pexc, rowVars, attrVars, batchVars, faults, callVars, handlerVars>>

\* reading the stream raises
ReadError ==
    /\ ppc = "iter" /\ faults > 0
    /\ faults' = faults - 1
    /\ ppc' = "raised" /\ pexc' = Raise("OSError", "read", Null)
    /\ UNCHANGED <<err, db, pfile, pbatch, ppos, prows, inserts, rowVars, attrVars, batchVars, callVars, handlerVars>>

\* db.insert raises on the chunk about to be written
InsertError ==
    /\ ppc = "iter" /\ faults > 0
    /\ IF ppos < Len(pfile.lines)
       THEN LET row == AttrDictReader_next(pfile.header, pfile.lines[ppos + 1])
                v == is_valid(row)
            IN /\ v.ret = "True"
               /\ ChunkFull(RowsAppend(prows, row), pbatch)
               /\ err' = v.err
               /\ ppos' = ppos + 1
               /\ prows' = RowsAppend(prows, row)
       ELSE /\ FinalFlush(prows)
            /\ UNCHANGED <<err, ppos, prows>>
    /\ faults' = faults - 1
    /\ ppc' = "raised" /\ pexc' = Raise("sqlite3.Error", "insert", Null)
    /\ UNCHANGED <<db, pfile, pbatch, inserts, rowVars, attrVars, batchVars, callVars, handlerVars>>

(***************************************************************************)
(* A caller that invokes process_records on local files, one after the     *)
(* other, with one in-memory database (test_handler.py)                    *)
(***************************************************************************)
\* line i of a file: a valid line, or one with an invalid batch code; the
\* records column carries the line number, so the lines of a file differ
MakeLine(kind, i) ==
    [ValidRow EXCEPT !["records"] = S(<<Digits[i + 1]>>),
                     !["batch"] = IF kind = "bad" THEN Malformed("batch") ELSE @]

MakeLines(kinds) == [i \in DOMAIN kinds |-> MakeLine(kinds[i], i)]

RECURSIVE SeqsUpTo(_, _)
SeqsUpTo(set, n) ==
    IF n = 0 THEN {<<>>}
    ELSE LET shorter == SeqsUpTo(set, n - 1)
         IN shorter \cup {Append(q, x) : q \in {r \in shorter : Len(r) = n - 1}, x \in set}

CsvName == [stem |-> "file1", ext |-> ".csv"]
PngName == [stem |-> "image", ext |-> ".png"]

FullHeader == ColumnNames

\* files the caller may pass with at most n data lines: csv files with any
\* mix of valid and invalid lines; a csv file whose header lacks a required
\* column and a png file, both filled with lines that would be valid
FilePool(n) ==
    {[name |-> CsvName, exists |-> TRUE, header |-> FullHeader, lines |-> MakeLines(k)] :
        k \in SeqsUpTo({"ok", "bad"}, n)}
    \cup {[name |-> fn, exists |-> TRUE, header |-> h, lines |-> MakeLines(k)] :
            fn \in {CsvName}, h \in {FullHeader \ {"pass"}}, k \in SeqsUpTo({"ok"}, n)}
    \cup {[name |-> fn, exists |-> TRUE, header |-> h, lines |-> MakeLines(k)] :
            fn \in {PngName}, h \in {FullHeader}, k \in SeqsUpTo({"ok"}, n)}

\* process_records(upload, db, n) by the caller; one caller keeps one
\* batch size, and stops at the first exception
CallProcessRecords(file, n) ==
    /\ hpc = "idle" /\ run = 0
    /\ ppc \in {"idle", "returned"}
    /\ ncalls < MaxCalls
    /\ nlines + Len(file.lines) <= MaxLines
    /\ pbatch \in {0, n}
    /\ ncalls' = ncalls + 1
    /\ nlines' = nlines + Len(file.lines)
    /\ UNCHANGED nfiles
    /\ hlog' = IF ppc = "returned" THEN Append(hlog, LogEntry) ELSE hlog
    /\ ProcessRecordsEnter(file, n)
    /\ UNCHANGED <<err, db, rowVars, attrVars, batchVars, faults,
                   hpc, run, pending, infos, skipped, fidx, store, local, nput>>

\* the caller passes its next file, within the bounds of the model
CallNext ==
    /\ ppc \in {"idle", "returned"} /\ ncalls < MaxCalls
    /\ \E file \in FilePool(MaxLines - nlines) :
         \E n \in 1..MaxBatch : CallProcessRecords(file, n)

NextProc ==
    \/ CallNext
    \/ IterateRow
    \/ EndOfStream

SpecProc == InitCommon /\ [][NextProc]_vars


(***************************************************************************)
(* handler: one invocation per S3 event                                    *)
(***************************************************************************)
DB_KEY == [stem |-> "store/uploads", ext |-> ".db3"]

\* S3 objects an event may name: key, ContentType of get_object, content
ObjectPool ==
    {[key |-> [stem |-> "a", ext |-> ".csv"], ctype |-> "text/csv",
      header |-> FullHeader, lines |-> MakeLines(<<"ok", "bad">>)],
     [key |-> [stem |-> "b", ext |-> ".csv"], ctype |-> "text/csv",
      header |-> FullHeader, lines |-> MakeLines(<<"bad", "ok">>)],
     [key |-> [stem |-> "bad", ext |-> ".csv"], ctype |-> "text/csv",
      header |-> FullHeader \ {"pass"}, lines |-> MakeLines(<<"ok">>)],
     [key |-> [stem |-> "export", ext |-> ""], ctype |-> "text/csv",
      header |-> FullHeader, lines |-> MakeLines(<<"ok">>)],
     [key |-> [stem |-> "img", ext |-> ".png"], ctype |-> "image/png",
      header |-> FullHeader, lines |-> <<>>]}

\* S3ObjInfo._generate_local_name: a fresh uuid, then the key without '/';
\* the extension of the key is kept
generate_local_name(uuid, key) == [stem |-> <<uuid, key.stem>>, ext |-> key.ext]

\* the file at info.local_filepath, as process_records finds it
LocalFile(info) ==
    [name |-> generate_local_name(info.lid, info.key),
     exists |-> info.lid \in local,
     header |-> info.header, lines |-> info.lines]

\* the content-type test of the handler loop
IsCsvObject(content_type) == content_type = "text/csv"

Lids(list) == {list[i].lid : i \in DOMAIN list}

\* the locals of a handler invocation, gone when it returns
HandlerReturn ==
    /\ hpc' = "idle"
    /\ pending' = <<>> /\ infos' = <<>> /\ skipped' = <<>>
    /\ fidx' = 0 /\ hlog' = <<>> /\ nput' = 0
    /\ db' = <<>>
    /\ ppc' = "idle" /\ pfile' = NoFile /\ pbatch' = 0 /\ ppos' = 0
    /\ prows' = <<>> /\ inserts' = <<>> /\ pexc' = Ok

\* handler(event, context) is entered
HandlerStart(ev) ==
    /\ hpc = "idle" /\ ncalls = 0
    /\ run < MaxRuns
    /\ run' = run + 1
    /\ pending' = ev
    /\ nfiles' = nfiles + Len(ev)
    /\ hpc' = "download"
    /\ UNCHANGED <<err, rowVars, attrVars, batchVars, procVars, faults, ncalls, nlines,
                   infos, skipped, fidx, store, local, hlog, nput>>

\* one iteration of the loop over download_s3_objects: S3ObjInfo.download,
\* then the content-type test.  outcome "get": get_object raises;
\* "write": the local file cannot be written
DownloadObject(outcome) ==
    /\ hpc = "download" /\ pending # <<>>
    /\ outcome # "ok" => faults > 0
    /\ faults' = IF outcome = "ok" THEN faults ELSE faults - 1
    /\ LET obj == Head(pending)
           lid == <<run, Len(infos) + Len(skipped) + 1>>
           info == [key |-> obj.key, lid |-> lid,
                    content_type |-> IF outcome = "get" THEN "None" ELSE obj.ctype,
                    header |-> obj.header, lines |-> obj.lines]
       IN /\ local' = IF outcome = "ok" THEN local \cup {lid} ELSE local
          /\ IF ~IsCsvObject(info.content_type)
             THEN skipped' = Append(skipped, info) /\ UNCHANGED infos
             ELSE infos' = Append(infos, info) /\ UNCHANGED skipped
    /\ pending' = Tail(pending)
    /\ UNCHANGED <<err, rowVars, attrVars, batchVars, procVars, callVars, hpc, run, fidx, store, hlog, nput>>

\* `if not infos: return`
NoCsvFiles ==
    /\ hpc = "download" /\ pending = <<>>
    /\ infos = <<>>
    /\ HandlerReturn
    /\ UNCHANGED <<err, rowVars, attrVars, batchVars, faults, callVars, run, store, local>>

DbLid == <<run, 0>>

\* DB.connect(db_info): download the store object, open it if it arrived,
\* otherwise create a new database.  outcome "get": get_object raises
\* although the object exists (with no object it raises in any case)
Connect(outcome) ==
    /\ hpc = "download" /\ pending = <<>>
    /\ infos # <<>>
    /\ outcome # "ok" => faults > 0 /\ store.exists
    /\ faults' = IF outcome = "ok" THEN faults ELSE faults - 1
    /\ db' = IF outcome = "ok" /\ store.exists THEN store.rows ELSE <<>>
    /\ local' = local \cup {DbLid}
    /\ hpc' = "process"
    /\ UNCHANGED <<err, rowVars, attrVars, batchVars, ppc, pfile, pbatch, ppos, prows, inserts, pexc, callVars,
                   run, pending, infos, skipped, fidx, store, hlog, nput>>

\* `for info in infos`: process_records(info.local_filepath, db)
ProcessFile ==
    /\ hpc = "process" /\ ppc = "idle"
    /\ fidx < Len(infos)
    /\ fidx' = fidx + 1
    /\ ProcessRecordsEnter(LocalFile(infos[fidx + 1]), BATCH_SIZE)
    /\ UNCHANGED <<err, db, rowVars, attrVars, batchVars, faults, callVars,
                   hpc, run, pending, infos, skipped, store, local, hlog, nput>>

\* faulty variant without the try/except around process_records: an
\* exception leaves the handler, which neither uploads nor cleans up
ProcessFileUncaught ==
    /\ hpc = "process" /\ ppc \in {"returned", "raised"}
    /\ IF ppc = "raised"
       THEN /\ HandlerReturn
            /\ UNCHANGED <<err, rowVars, attrVars, batchVars, faults, callVars,
                           run, store, local>>
       ELSE /\ hlog' = Append(hlog, LogEntry)
            /\ ppc' = "idle"
            /\ UNCHANGED <<err, db, pfile, pbatch, ppos, prows, inserts, pexc, rowVars,
                           attrVars, batchVars, faults, callVars, hpc, run, pending,
                           infos, skipped, fidx, store, local, nput>>

\* process_records has returned or raised; the except clause logs
ProcessFileDone ==
    /\ hpc = "process" /\ ppc \in {"returned", "raised"}
    /\ hlog' = Append(hlog, LogEntry)
    /\ ppc' = "idle"
    /\ UNCHANGED <<err, db, pfile, pbatch, ppos, prows, inserts, pexc, rowVars, attrVars, batchVars, faults,
                   callVars, hpc, run, pending, infos, skipped, fidx, store, local, nput>>

\* db_info.upload(): put_object of the local database file
Upload ==
    /\ hpc = "process" /\ ppc = "idle" /\ fidx = Len(infos)
    /\ IF DbLid \in local
       THEN store' = [exists |-> TRUE, rows |-> db] /\ nput' = nput + 1
       ELSE UNCHANGED <<store, nput>>
    /\ hpc' = "cleanup"
    /\ UNCHANGED <<err, rowVars, attrVars, batchVars, procVars, faults, callVars,
                   run, pending, infos, skipped, fidx, local, hlog>>

\* put_object raises; the handler logs and goes on
UploadError ==
    /\ hpc = "process" /\ ppc = "idle" /\ fidx = Len(infos)
    /\ DbLid \in local
    /\ faults > 0
    /\ faults' = faults - 1
    /\ nput' = nput + 1
    /\ hpc' = "cleanup"
    /\ UNCHANGED <<err, rowVars, attrVars, batchVars, procVars, callVars,
                   run, pending, infos, skipped, fidx, store, local, hlog>>

\* cleanup_resources(infos + skipped + [db_info]), then the handler returns
Cleanup ==
    /\ hpc = "cleanup"
    /\ local' = local \ (Lids(infos) \cup Lids(skipped) \cup {DbLid})
    /\ HandlerReturn
    /\ UNCHANGED <<err, rowVars, attrVars, batchVars, faults, callVars, run, store>>

\* cleanup_resources when unlink raises for one of the files: the except
\* clause logs, the file stays, the others are deleted
CleanupUnlinkError ==
    /\ hpc = "cleanup"
    /\ faults > 0
    /\ faults' = faults - 1
    /\ \E kept \in local \cap (Lids(infos) \cup Lids(skipped) \cup {DbLid}) :
          local' = (local \ (Lids(infos) \cup Lids(skipped) \cup {DbLid})) \cup {kept}
    /\ HandlerReturn
    /\ UNCHANGED <<err, rowVars, attrVars, batchVars, callVars, run, store>>

\* an S3 event arrives, within the bounds of the model
ReceiveEvent ==
    /\ hpc = "idle" /\ run < MaxRuns
    /\ \E ev \in SeqsUpTo(ObjectPool, MaxFiles - nfiles) : HandlerStart(ev)

Next ==
    \/ ReceiveEvent
    \/ \E o \in {"ok", "get", "write"} : DownloadObject(o)
    \/ NoCsvFiles
    \/ \E o \in {"ok", "get"} : Connect(o)
    \/ ProcessFile
    \/ IterateRow
    \/ EndOfStream
    \/ ReadError
    \/ InsertError
    \/ ProcessFileDone
    \/ Upload
    \/ UploadError
    \/ Cleanup
    \/ CleanupUnlinkError

Spec == InitCommon /\ [][Next]_vars


(***************************************************************************)
(* AttrDict.  Objects have identity: the heap is the sequence of objects   *)
(* created so far and a reference is an index into it.  A mapping object   *)
(* holds items, a sequence object holds elems; the AttrDict under test is  *)
(* object 1.                                                               *)
(***************************************************************************)
AttrKeys == {"foo", "bar", "rows"}

Ref(id) == Val("ref", <<>>, id)

NoItems == [k \in AttrKeys |-> Absent]

\* a dict or an AttrDict
Mapping(type, items) == [type |-> type, items |-> items, elems |-> <<>>]

\* a list or a tuple
Sequence(type, elems) == [type |-> type, items |-> NoItems, elems |-> elems]

Yes == Str(<<"y", "e", "s">>)
No == Str(<<"n", "o">>)
Bar == Str(<<"b", "a", "r">>)

\* structures a caller may build
HeapPool ==
    {\* AttrDict(foo='bar')
     <<Mapping("AttrDict", [NoItems EXCEPT !["foo"] = Bar])>>,
     \* AttrDict({'foo': {'bar': 'yes'}})
     <<Mapping("AttrDict", [NoItems EXCEPT !["foo"] = Ref(2)]),
       Mapping("dict", [NoItems EXCEPT !["bar"] = Yes])>>,
     \* AttrDict({'foo': AttrDict(bar='yes')})
     <<Mapping("AttrDict", [NoItems EXCEPT !["foo"] = Ref(2)]),
       Mapping("AttrDict", [NoItems EXCEPT !["bar"] = Yes])>>,
     \* AttrDict({'rows': [{'foo': 'bar'}, 77]})
     <<Mapping("AttrDict", [NoItems EXCEPT !["rows"] = Ref(2)]),
       Sequence("list", <<Ref(3), Num(77)>>),
       Mapping("dict", [NoItems EXCEPT !["foo"] = Bar])>>,
     \* AttrDict({'rows': ({'foo': 'bar'}, 77)})
     <<Mapping("AttrDict", [NoItems EXCEPT !["rows"] = Ref(2)]),
       Sequence("tuple", <<Ref(3), Num(77)>>),
       Mapping("dict", [NoItems EXCEPT !["foo"] = Bar])>>,
     \* AttrDict({'foo': {'bar': 'yes'}, 'rows': [77]})
     <<Mapping("AttrDict", [NoItems EXCEPT !["foo"] = Ref(2), !["rows"] = Ref(3)]),
       Mapping("dict", [NoItems EXCEPT !["bar"] = Yes]),
       Sequence("list", <<Num(77)>>)>>}

\* isinstance(x, dict) and not isinstance(x, AttrDict)
is_dict(h, x) == x.kind = "ref" /\ h[x.n].type = "dict"

\* isinstance(value, (list, tuple))
IsListOrTuple(h, x) == x.kind = "ref" /\ h[x.n].type \in {"list", "tuple"}

\* AttrDict(value): a new AttrDict holding the items of the dict
AttrDict_new(h, id) == Mapping("AttrDict", h[id].items)

\* [AttrDict(item) if is_dict(item) else item for item in value]: the heap
\* after the conversions and the elements of the new list
RECURSIVE WrapItems(_, _, _)
WrapItems(h, items, done) ==
    IF items = <<>>
    THEN [heap |-> h, elems |-> done]
    ELSE LET item == Head(items)
         IN IF is_dict(h, item)
            THEN WrapItems(Append(h, AttrDict_new(h, item.n)), Tail(items),
                           Append(done, Ref(Len(h) + 1)))
            ELSE WrapItems(h, Tail(items), Append(done, item))

\* AttrDict.__getattr__(self, name): the heap after the call and the value
\* returned
AttrDict_getattr(h, self, name) ==
    LET value == Get(h[self].items, name)
    IN IF is_dict(h, value)
       THEN LET new == Len(h) + 1
            IN [heap |-> Append([h EXCEPT ![self].items[name] = Ref(new)],
                                AttrDict_new(h, value.n)),
                ret |-> Ref(new)]
       ELSE IF IsListOrTuple(h, value)
            THEN LET w == WrapItems(h, h[value.n].elems, <<>>)
                     new == Len(w.heap) + 1
                 IN [heap |-> Append([w.heap EXCEPT ![self].items[name] = Ref(new)],
                                     Sequence("list", w.elems)),
                     ret |-> Ref(new)]
            ELSE [heap |-> h, ret |-> value]

\* AttrDict.__setattr__(self, name, value)
AttrDict_setattr(h, self, name, value) == [h EXCEPT ![self].items[name] = value]

\* self[name]
Index(self, name) == heap[self].items[name]

\* the objects returned by the accesses made so far
Returned == {acc[i].ret.n : i \in {j \in DOMAIN acc : acc[j].ret.kind = "ref"}}

\* the elements of the lists returned
ReturnedElements ==
    UNION {{heap[l].elems[k].n : k \in {m \in DOMAIN heap[l].elems : heap[l].elems[m].kind = "ref"}} :
            l \in {r \in Returned : heap[r].type = "list"}}

\* the objects the caller can reach: the AttrDict it built, what the
\* accesses returned and the elements of returned lists
Held == {1} \cup Returned \cup ReturnedElements

\* value = self.name, for a key that self holds
GetAttrCall(self, name) ==
    /\ Len(acc) < MaxAccess
    /\ heap[self].type = "AttrDict"
    /\ heap[self].items[name] # Absent
    /\ LET r == AttrDict_getattr(heap, self, name)
       IN /\ heap' = r.heap
          /\ acc' = Append(acc, [self |-> self, name |-> name, ret |-> r.ret])
    /\ UNCHANGED <<nmut, err, rowVars, batchVars, procVars, faults, callVars, handlerVars>>

\* self.name = value, on the AttrDict or on one an access returned
SetAttrCall(self, name, value) ==
    /\ nmut < MaxMut
    /\ heap[self].type = "AttrDict"
    /\ heap[self].items[name] # value
    /\ heap' = AttrDict_setattr(heap, self, name, value)
    /\ nmut' = nmut + 1
    /\ UNCHANGED <<acc, err, rowVars, batchVars, procVars, faults, callVars, handlerVars>>

\* value.append(item), on a list an access returned
ListAppend(l, item) ==
    /\ nmut < MaxMut
    /\ heap[l].type = "list"
    /\ heap' = [heap EXCEPT ![l].elems = Append(@, item)]
    /\ nmut' = nmut + 1
    /\ UNCHANGED <<acc, err, rowVars, batchVars, procVars, faults, callVars, handlerVars>>

NextAttr ==
    \/ \E self \in Held : \E name \in AttrKeys : GetAttrCall(self, name)
    \/ \E self \in Held : SetAttrCall(self, "bar", No)
    \/ \E l \in Returned : ListAppend(l, Num(1))

InitAttr ==
    /\ InitProgram /\ BatchIdle
    /\ heap \in HeapPool /\ acc = <<>> /\ nmut = 0

SpecAttr == InitAttr /\ [][NextAttr]_vars

(***************************************************************************)
(* BatchValidator(length) called on strings                                *)
(***************************************************************************)
\* a lower-case and an upper-case letter, a digit, and a character that
\* lies between 'Z' and 'a'
BatchAlphabet == {"a", "Z", "7", "_"}

\* BatchValidator(blen)(bval)
CallBatchValidator ==
    /\ bout = NotCalled
    /\ bout' = BatchValidator(blen, Str(bval))
    /\ UNCHANGED <<blen, bval, err, rowVars, attrVars, procVars, faults, callVars, handlerVars>>

NextBatch == CallBatchValidator

InitBatch ==
    /\ InitProgram /\ AttrIdle
    /\ blen \in 0..MaxBatchLen
    /\ bval \in SeqsUpTo(BatchAlphabet, MaxStrLen)
    /\ bout = NotCalled

SpecBatch == InitBatch /\ [][NextBatch]_vars


(***************************************************************************)
(* Properties                                                              *)
(***************************************************************************)
\* the rows the reader yields for the first k lines of a file
RowsRead(file, k) == [i \in 1..k |-> AttrDictReader_next(file.header, file.lines[i])]

\* those of them that RowValidator.is_valid accepts, in stream order
ValidRows(file, k) == SelectSeq(RowsRead(file, k), LAMBDA r : is_valid(r).ret = "True")

AllValidRows(file) == ValidRows(file, Len(file.lines))

CsvNamed(file) == file.name.ext = ".csv"

ChunkSizes == [i \in DOMAIN inserts |-> Len(inserts[i])]

\* k rows cut into chunks of n: full chunks, then the remainder if any
ExpectedSizes(k, n) ==
    [i \in 1..((k + n - 1) \div n) |-> IF i * n <= k THEN n ELSE k - (i - 1) * n]

\* C1: for every batch size n >= 1, every chunk passed to insert has between
\* 1 and n rows, every chunk but the last has exactly n, a partial chunk is
\* only written at the end of the stream, and the sizes are those of the
\* valid rows cut into chunks of n, in order.
C1_ChunkSizes ==
    (ppc # "idle" /\ pbatch >= 1) =>
        /\ \A i \in DOMAIN inserts :
              /\ Len(inserts[i]) \in 1..pbatch
              /\ i < Len(inserts) => Len(inserts[i]) = pbatch
        /\ ppc = "iter" => \A i \in DOMAIN inserts : Len(inserts[i]) = pbatch
        /\ (ppc = "returned" /\ CsvNamed(pfile)) =>
              ChunkSizes = ExpectedSizes(Len(AllValidRows(pfile)), pbatch)

\* batch size 2 and 5 valid rows: inserts of sizes 2, 2, 1
C1_Witness ==
    /\ ppc = "returned" /\ pbatch = 2
    /\ Len(AllValidRows(pfile)) = 5
    /\ ChunkSizes = <<2, 2, 1>>

\* C2: the chunks passed to the sink, concatenated in call order, are
\* exactly the rows of the input that is_valid accepts, in stream order;
\* while the stream is read, the chunks written plus the chunk being
\* accumulated are the valid rows among the lines read so far.
C2_SinkGetsValidRows ==
    /\ ppc = "iter" => Flatten(inserts) \o prows = ValidRows(pfile, ppos)
    /\ (ppc = "returned" /\ CsvNamed(pfile)) =>
          /\ ppos = Len(pfile.lines)
          /\ Flatten(inserts) = AllValidRows(pfile)

\* one valid row and one row with an invalid batch code: one row inserted
C2_Witness ==
    /\ ppc = "returned" /\ CsvNamed(pfile)
    /\ Len(pfile.lines) = 2
    /\ \E i \in 1..2 : BatchValidator(BATCH_LENGTH, pfile.lines[i]["batch"]).exc # "none"
    /\ Len(Flatten(inserts)) = 1

\* C3: a file whose type is not text/csv makes process_records return
\* without raising and without any call of the sink, whatever it contains,
\* and the same holds of every such call that already ended.
C3_NonCsvNoSink ==
    /\ (ppc # "idle" /\ guess_type(pfile.name) # "text/csv") =>
          ppc = "returned" /\ pexc = Ok /\ inserts = <<>> /\ ppos = 0
    /\ \A i \in DOMAIN hlog :
          guess_type(hlog[i].name) # "text/csv" =>
              hlog[i].exc = "none" /\ hlog[i].rows = <<>>

\* a png file with content was passed first, nothing was inserted, and the
\* csv file passed after it had its row inserted
C3_Witness ==
    /\ Len(hlog) = 1
    /\ guess_type(hlog[1].name) = "image/png" /\ hlog[1].rows = <<>>
    /\ nlines > Len(pfile.lines)
    /\ ppc = "returned" /\ CsvNamed(pfile)
    /\ inserts # <<>> /\ db = Flatten(inserts)

\* C4 (as claimed): every object whose declared content type is text/csv is
\* handed to process_records by the handler and every valid row of it is
\* inserted, whatever its key.
C4_DeclaredCsvIsIngested ==
    (hpc = "process" /\ ppc = "returned" /\ pfile.exists) =>
        Flatten(inserts) = AllValidRows(pfile)

\* C5: process_records never raises on a csv file that is read without I/O
\* error, whatever its rows and header, and when no row is valid it makes no
\* insert.
C5_NoRaiseOnBadData ==
    /\ ppc # "raised" /\ pexc = Ok
    /\ (ppc = "returned" /\ AllValidRows(pfile) = <<>>) => inserts = <<>>


\* the header lacks a required column: every row fails with a missing
\* value, nothing is inserted and process_records returns
C5_Witness ==
    /\ ppc = "returned" /\ CsvNamed(pfile)
    /\ "pass" \notin pfile.header /\ Len(pfile.lines) >= 2
    /\ err = Missing("pass")
    /\ inserts = <<>> /\ pexc = Ok

\* a column counts as missing, in the words of the claim, when its value is
\* null or the empty string
ClaimedMissing(v) == v.kind \in {"absent", "null"} \/ (v.kind = "str" /\ v.s = <<>>)

Validated == vphase = "called" /\ vres.op = "validate"

\* C6 (as claimed): validate succeeds iff all six columns are present and
\* each value passes its column validator, where a column is missing exactly
\* when its value is null or the empty string; a missing column fails with
\* 'Missing value for <column>' and a present one with its validator's
\* failure.
C6_MissingIsNullOrEmpty ==
    Validated =>
        /\ vres.out.exc = "none" <=>
              \A c \in ColumnNames :
                  ~ClaimedMissing(vrow[c]) /\ ColumnValidator(c, vrow[c]).exc = "none"
        /\ \A c \in ColumnNames : vres.out = Missing(c) => ClaimedMissing(vrow[c])

\* the check RowValidator.__call__ makes on one column, taken alone
ColumnFailure(row, c) ==
    IF ~Truthy(Get(row, c)) THEN Missing(c) ELSE ColumnValidator(c, Get(row, c))

Failing(row) == {i \in DOMAIN columns : ColumnFailure(row, columns[i]).exc # "none"}

Min(set) == CHOOSE x \in set : \A y \in set : x <= y

\* C7: validate checks the columns in the order batch, start, end, records,
\* pass, message and stops at the first column whose check fails: the
\* failure raised is that column's, the validators invoked are those of the
\* columns before it (and its own, unless its value is missing), and no
\* validator of a later column is invoked.
C7_FirstFailureWins ==
    Validated =>
        IF Failing(vrow) = {}
        THEN vres.out = Ok /\ vres.calls = columns
        ELSE LET k == Min(Failing(vrow))
                 own == IF Truthy(Get(vrow, columns[k])) THEN k ELSE k - 1
             IN /\ vres.out = ColumnFailure(vrow, columns[k])
                /\ vres.calls = SubSeq(columns, 1, own)
                /\ \A j \in (k + 1)..Len(columns) : columns[j] \notin Range(vres.calls)

\* a row with two failing columns whose failures differ: the earlier one
\* is raised
C7_Witness ==
    /\ Validated
    /\ \E i, j \in Failing(vrow) :
          /\ i < j
          /\ ColumnFailure(vrow, columns[i]) # ColumnFailure(vrow, columns[j])
          /\ vres.out = ColumnFailure(vrow, columns[i])
          /\ Len(vres.calls) = i

\* C8 (as claimed): is_valid never raises on a row of the data model; it
\* returns false exactly when validate fails, with that failure stored, and
\* true otherwise with the stored error cleared.
C8_IsValidNeverRaises ==
    (vphase = "called" /\ vres.op = "is_valid") =>
        LET r == RowValidator_call(vrow).out
        IN /\ vres.ret # "raise"
           /\ vres.ret = "False" <=> r.exc # "none"
           /\ vres.ret = "False" => err = r
           /\ vres.ret = "True" => err = None


\* file i of the run contributed no row or raised
FailedOrEmpty(i) == hlog[i].exc # "none" \/ hlog[i].rows = <<>>

\* C9 (as claimed): when an accepted file contributes zero rows, is skipped
\* or raises, process_records is still invoked on every later accepted file
\* and the valid rows of those files are inserted.
C9_LaterFilesIngested ==
    hpc = "cleanup" =>
        \A i, j \in DOMAIN infos :
            (i < j /\ i <= Len(hlog) /\ FailedOrEmpty(i)) =>
                /\ j <= Len(hlog)
                /\ hlog[j].exc = "none" => hlog[j].rows = AllValidRows(infos[j])

\* the part of C9 that the handler's try/except decides: whatever happened
\* to the files before it, every accepted file is handed to process_records,
\* and one whose local name is a csv name and that raises nothing has its
\* valid rows inserted
LaterFilesInvoked ==
    hpc = "cleanup" =>
        /\ Len(hlog) = Len(infos)
        /\ \A j \in DOMAIN infos :
              (hlog[j].exc = "none" /\ infos[j].key.ext = ".csv") =>
                  hlog[j].rows = AllValidRows(infos[j])

IsPrefix(p, q) == Len(p) <= Len(q) /\ SubSeq(q, 1, Len(p)) = p

\* C10 (as claimed): the store object is append-only: no step of any
\* handler run, whether or not the download of the store fails, removes or
\* replaces a row the store object already holds.
C10_StoreAppendOnly ==
    [][store.exists => (store'.exists /\ IsPrefix(store.rows, store'.rows))]_vars

\* what holds in place of C10: an upload writes the rows of the database
\* the run opened or created, which are those of the store object only when
\* its download succeeded
UploadWritesLocalDb ==
    [][(store' # store) => (store'.exists /\ store'.rows = db)]_vars

\* C11 (as claimed): attribute access is memoized for every key, whether
\* its value is a nested mapping or a sequence: an access that returned a
\* wrapped object is followed by accesses of the same key that return the
\* identical object, and indexing yields that object too, so that what is
\* changed through the returned object is seen through later accesses and
\* through indexing.
C11_AccessMemoized ==
    \A i \in DOMAIN acc :
        acc[i].ret.kind = "ref" =>
            /\ Index(acc[i].self, acc[i].name) = acc[i].ret
            /\ \A j \in DOMAIN acc :
                  (i < j /\ acc[j].self = acc[i].self /\ acc[j].name = acc[i].name) =>
                      acc[j].ret = acc[i].ret

\* the part of C11 that holds: a wrapped mapping is cached in place, later
\* accesses and indexing return the identical AttrDict
MappingAccessMemoized ==
    \A i \in DOMAIN acc :
        (acc[i].ret.kind = "ref" /\ heap[acc[i].ret.n].type = "AttrDict") =>
            /\ Index(acc[i].self, acc[i].name) = acc[i].ret
            /\ \A j \in DOMAIN acc :
                  (i < j /\ acc[j].self = acc[i].self /\ acc[j].name = acc[i].name) =>
                      acc[j].ret = acc[i].ret

\* obj.foo.bar = 'no' is seen by obj['foo']['bar']
MappingMutationSeen ==
    /\ nmut = 1
    /\ \E i \in DOMAIN acc :
          /\ acc[i].self = 1 /\ acc[i].name = "foo" /\ acc[i].ret.kind = "ref"
          /\ heap[acc[i].ret.n].items["bar"] = No
          /\ heap[Index(1, "foo").n].items["bar"] = No

\* a = obj.rows; obj.rows; a.append(1): the item is in a and not in
\* obj['rows']
ListMutationLost ==
    \E i \in DOMAIN acc :
        /\ acc[i].ret.kind = "ref" /\ heap[acc[i].ret.n].type = "list"
        /\ Num(1) \in Range(heap[acc[i].ret.n].elems)
        /\ Num(1) \notin Range(heap[Index(acc[i].self, acc[i].name).n].elems)

AllLetters(s) == \A i \in DOMAIN s : IsLetter(s[i])

\* C12: for every configured length L and every string s, BatchValidator(L)
\* passes s iff s consists of exactly L letters A-Z/a-z; every other string
\* (shorter, longer, or of length L with a non-letter anywhere) fails with
\* 'Invalid batch provided'.
C12_PassIffExactlyLLetters ==
    bout # NotCalled =>
        /\ bout.exc = "none" <=> (Len(bval) = blen /\ AllLetters(bval))
        /\ bout.exc # "none" => bout = ValidationError("Invalid batch provided", Str(bval))

\* an all-letter string longer than the configured length 3 is rejected
C12_Witness ==
    /\ blen = 3 /\ Len(bval) > blen /\ AllLetters(bval)
    /\ bout.exc = "ValidationError"

\* a string of the configured length fails for a non-letter at the start,
\* in the middle or at the end, and passes when all are letters
BatchCasesOfLength3 ==
    (bout # NotCalled /\ blen = 3 /\ Len(bval) = 3) =>
        /\ (\E i \in 1..3 : ~IsLetter(bval[i])) => bout.exc = "ValidationError"
        /\ AllLetters(bval) => bout = Ok

C14_LocalFilesDeleted ==
    hpc = "idle" => local = {}

\* what holds in place of C14: a run that accepted a csv file leaves at
\* most the file whose unlink raised; files are left by the runs that
\* accepted none
CleanupDeletesRunFiles ==
    [][(hpc = "cleanup" /\ hpc' = "idle") =>
          Cardinality({lid \in local' : lid[1] = run}) <= (IF faults' < faults THEN 1 ELSE 0)]_vars

=============================================================================
